---- MODULE Spec2Model ----
(***************************************************************************)
(* Schedule Editor: the Excel import/export service (excelService) and the  *)
(* placement state of the App component (sessions, parkingLot,              *)
(* selectedSquad), as a state machine.                                      *)
(*                                                                         *)
(* JavaScript strings are sequences of one-character strings, so that      *)
(* trim, padStart, slice, split, parseInt, toLowerCase and the regular     *)
(* expressions of the source are computed and not assumed.  The result of   *)
(* parseInt is a record: NaN, or JsInt(n) for the integer n.                  *)
(***************************************************************************)
EXTENDS Integers, Sequences, FiniteSets, TLC

VARIABLES sessions, parkingLot, selectedSquad, loading, pendingFile,
          dataTransfer, nextId, ops, alerts, exported,
          sheetIndex, rowIndex, lastDateInSheet, allSessions,
          wallClock, timeValue, railwayTime,
          aiAnalysis, aiRequest

\* the state of the App component and of its environment
appVars == <<sessions, parkingLot, selectedSquad, loading, dataTransfer,
             nextId, ops, alerts, exported>>
\* the position and the local variables of a run of parseExcelFile
parserVars == <<sheetIndex, rowIndex, lastDateInSheet, allSessions>>

\* a call of normalizeTime: the wall-clock time its argument encodes, the
\* argument and the string returned
normalizerVars == <<wallClock, timeValue, railwayTime>>
\* the analysis shown and the position of a run of handleAiAnalysis
aiVars == <<aiAnalysis, aiRequest>>

vars == <<appVars, pendingFile, parserVars, normalizerVars, aiVars>>

(***************************************************************************)
(* Bounds of the model.                                                     *)
(***************************************************************************)
\* number of state-changing user operations (imports, drops, discards,
\* squad navigations) in one behaviour
MaxOps == 4
\* number of data rows of a sheet of ImportWorkbooks
MaxRows == 3

(***************************************************************************)
(* JavaScript strings and numbers.                                          *)
(***************************************************************************)
NaN == [nan |-> TRUE, n |-> 0]
JsInt(n) == [nan |-> FALSE, n |-> n]

DigitSeq == <<"0", "1", "2", "3", "4", "5", "6", "7", "8", "9">>
LowerSeq == <<"a", "b", "c", "d", "e", "f", "g", "h", "i", "j", "k", "l", "m",
              "n", "o", "p", "q", "r", "s", "t", "u", "v", "w", "x", "y", "z">>
UpperSeq == <<"A", "B", "C", "D", "E", "F", "G", "H", "I", "J", "K", "L", "M",
              "N", "O", "P", "Q", "R", "S", "T", "U", "V", "W", "X", "Y", "Z">>

Range(f) == {f[i] : i \in DOMAIN f}

IsDigit(c) == c \in Range(DigitSeq)
IsLetter(c) == c \in Range(LowerSeq) \cup Range(UpperSeq)
IsSpace(c) == c = " "

DigitVal(c) == (CHOOSE i \in DOMAIN DigitSeq : DigitSeq[i] = c) - 1

\* String.prototype.toLowerCase, one character
LowerChar(c) ==
    IF c \in Range(UpperSeq)
    THEN LowerSeq[CHOOSE i \in DOMAIN UpperSeq : UpperSeq[i] = c]
    ELSE c

toLowerCase(s) == [i \in DOMAIN s |-> LowerChar(s[i])]

RECURSIVE trimStart(_)
trimStart(s) ==
    IF s # <<>> /\ IsSpace(Head(s)) THEN trimStart(Tail(s)) ELSE s

RECURSIVE trimEnd(_)
trimEnd(s) ==
    IF s # <<>> /\ IsSpace(s[Len(s)])
    THEN trimEnd(SubSeq(s, 1, Len(s) - 1))
    ELSE s

\* String.prototype.trim
trim(s) == trimEnd(trimStart(s))

\* String.prototype.padStart(n, c)
RECURSIVE padStart(_, _, _)
padStart(s, n, c) == IF Len(s) >= n THEN s ELSE padStart(<<c>> \o s, n, c)

\* String.prototype.slice(a, b) for 0 <= a <= b, 0-based, end exclusive
slice(s, a, b) ==
    LET e == IF b > Len(s) THEN Len(s) ELSE b
    IN  IF a >= e THEN <<>> ELSE SubSeq(s, a + 1, e)

\* String.prototype.split(sep) for a one-character separator
RECURSIVE split(_, _)
split(s, sep) ==
    IF \A i \in DOMAIN s : s[i] # sep
    THEN <<s>>
    ELSE LET k == CHOOSE i \in DOMAIN s :
                      s[i] = sep /\ \A j \in 1..(i - 1) : s[j] # sep
         IN  <<SubSeq(s, 1, k - 1)>> \o split(SubSeq(s, k + 1, Len(s)), sep)

\* String.prototype.replace(/[a-z]/gi, '')
RECURSIVE RemoveLetters(_)
RemoveLetters(s) ==
    IF s = <<>> THEN <<>>
    ELSE (IF IsLetter(Head(s)) THEN <<>> ELSE <<Head(s)>>)
             \o RemoveLetters(Tail(s))

\* the value of a non-empty sequence of decimal digits
RECURSIVE DigitsValue(_)
DigitsValue(ds) ==
    IF ds = <<>> THEN 0
    ELSE 10 * DigitsValue(SubSeq(ds, 1, Len(ds) - 1)) + DigitVal(ds[Len(ds)])

\* the longest prefix of s made of decimal digits
RECURSIVE DigitPrefix(_)
DigitPrefix(s) ==
    IF s # <<>> /\ IsDigit(Head(s))
    THEN <<Head(s)>> \o DigitPrefix(Tail(s))
    ELSE <<>>

\* the number denoted by the digits ds, negated when neg; NaN without digits
SignedValue(ds, neg) ==
    IF ds = <<>> THEN NaN
    ELSE IF neg THEN JsInt(0 - DigitsValue(ds))
    ELSE JsInt(DigitsValue(ds))

\* parseInt of a string t without leading white space
ParseTrimmed(t) ==
    IF t # <<>> /\ Head(t) \in {"-", "+"}
    THEN SignedValue(DigitPrefix(Tail(t)), Head(t) = "-")
    ELSE SignedValue(DigitPrefix(t), FALSE)

\* parseInt(s, 10): leading white space, an optional sign, then the longest
\* run of digits; NaN when there is no digit
parseInt(s) == ParseTrimmed(trimStart(s))

\* String(n) of a natural number
RECURSIVE NatString(_)
NatString(n) ==
    IF n < 10 THEN <<DigitSeq[n + 1]>>
    ELSE NatString(n \div 10) \o <<DigitSeq[(n % 10) + 1]>>

\* String(n) of an integer
NumString(n) == IF n < 0 THEN <<"-">> \o NatString(0 - n) ELSE NatString(n)

\* String(x) of the result of parseInt or of arithmetic on it
JsNumString(x) == IF x.nan THEN <<"N", "a", "N">> ELSE NumString(x.n)

\* the JavaScript remainder a % b for b > 0: the sign of the dividend, NaN kept
JsRem(a, b) ==
    IF a.nan THEN NaN
    ELSE IF a.n < 0 THEN JsInt(0 - ((0 - a.n) % b))
    ELSE JsInt(a.n % b)

(***************************************************************************)
(* Cell values of a worksheet, as XLSX.utils.sheet_to_json(header: 1) with  *)
(* cellDates hands them over: undefined (an absent cell), a string, a      *)
(* number (an integer, or a fraction num/den of a day in (0, 1)) or a Date  *)
(* (its UTC calendar date and its local hours and minutes).                 *)
(***************************************************************************)
Undefined == [t |-> "undefined"]
Str(s) == [t |-> "string", s |-> s]
Num(n) == [t |-> "number", n |-> n]
Frac(num, den) == [t |-> "fraction", num |-> num, den |-> den]
DateObj(iso, h, m) == [t |-> "Date", iso |-> iso, h |-> h, m |-> m]

\* !val, val || default
Falsy(val) ==
    \/ val.t = "undefined"
    \/ val.t = "string" /\ val.s = <<>>
    \/ val.t = "number" /\ val.n = 0

\* String(val) of a string or an integer number
String(val) == IF val.t = "string" THEN val.s ELSE NumString(val.n)

\* Math.round(num / den * 1440) for num / den >= 0
RoundMinutes(num, den) == (2 * num * 1440 + den) \div (2 * den)

\* str.match(/(am|pm)/i): the first match, lower-cased, or <<>>
RECURSIVE ampmMatch(_)
ampmMatch(str) ==
    IF Len(str) < 2 THEN <<>>
    ELSE IF LowerChar(str[1]) \in {"a", "p"} /\ LowerChar(str[2]) = "m"
    THEN <<LowerChar(str[1]), "m">>
    ELSE ampmMatch(Tail(str))

\* .map(p => p.trim()).filter(p => p.length > 0)
RECURSIVE TrimNonEmpty(_)
TrimNonEmpty(ps) ==
    IF ps = <<>> THEN <<>>
    ELSE (IF trim(Head(ps)) = <<>> THEN <<>> ELSE <<trim(Head(ps))>>)
             \o TrimNonEmpty(Tail(ps))

\* lines 37-46: hours and minutes from the parts of the string
PartsHoursMinutes(parts) ==
    IF Len(parts) >= 2 THEN <<parseInt(parts[1]), parseInt(parts[2])>>
    ELSE IF Len(parts) = 1
    THEN <<parseInt(slice(padStart(parts[1], 4, "0"), 0, 2)),
           parseInt(slice(padStart(parts[1], 4, "0"), 2, 4))>>
    ELSE <<JsInt(0), JsInt(0)>>

\* the adjustment without the case of 12 AM
AmPmHoursNoMidnight(hours, ampm) ==
    IF ampm = <<>> \/ hours.nan THEN hours
    ELSE IF ampm = <<"p", "m">> /\ hours.n < 12 THEN JsInt(hours.n + 12)
    ELSE hours

\* lines 48-52: the AM/PM adjustment of the hours (a comparison with NaN is
\* false)
AmPmHours(hours, ampm) ==
    IF ampm = <<>> \/ hours.nan THEN hours
    ELSE IF ampm = <<"p", "m">> /\ hours.n < 12 THEN JsInt(hours.n + 12)
    ELSE IF ampm # <<"p", "m">> /\ hours.n = 12 THEN JsInt(0)
    ELSE hours

AmPmAdjusted(hm, ampm) == <<AmPmHours(hm[1], ampm), hm[2]>>

\* hours and minutes of the trimmed string str, before the wrap-around
StringHoursMinutes(str) ==
    AmPmAdjusted(
        PartsHoursMinutes(TrimNonEmpty(split(RemoveLetters(str), ":"))),
        ampmMatch(str))

\* Math.floor(totalMinutes / 60) and totalMinutes % 60
MinutesHoursMinutes(totalMinutes) ==
    <<JsInt(totalMinutes \div 60), JsInt(totalMinutes % 60)>>

\* hours and minutes of a number input, before the wrap-around
NumberHoursMinutes(val) ==
    IF val.t = "fraction"
    THEN MinutesHoursMinutes(RoundMinutes(val.num, val.den))
    ELSE IF val.n = 0 THEN MinutesHoursMinutes(0)
    ELSE <<parseInt(slice(padStart(NumString(val.n), 4, "0"), 0, 2)),
           parseInt(slice(padStart(NumString(val.n), 4, "0"), 2, 4))>>

\* lines 55-59: the wrap-around and the two padded fields
RailwayTime(hm) ==
    padStart(JsNumString(JsRem(hm[1], 24)), 2, "0")
        \o padStart(JsNumString(JsRem(hm[2], 60)), 2, "0")

normalizeTime(val) ==
    IF val.t = "undefined" \/ (val.t = "string" /\ val.s = <<>>) THEN <<>>
    ELSE IF val.t = "Date" THEN RailwayTime(<<JsInt(val.h), JsInt(val.m)>>)
    ELSE IF val.t \in {"number", "fraction"}
    THEN RailwayTime(NumberHoursMinutes(val))
    ELSE RailwayTime(StringHoursMinutes(trim(val.s)))

(***************************************************************************)
(* normalizeDate.  Two library functions are modelled on the inputs the    *)
(* model draws: XLSX.SSF.parse_date_code on date serials above 60, and    *)
(* new Date(str) on strings YYYY-MM-DDT00:00Z (every other string the      *)
(* model draws is no date for it).                                          *)
(***************************************************************************)
\* the calendar date of the date serial n > 60 (days since 1899-12-30)
parse_date_code(n) ==
    LET z == (n - 25569) + 719468
        era == z \div 146097
        doe == z - era * 146097
        yoe == (doe - doe \div 1460 + doe \div 36524 - doe \div 146096) \div 365
        doy == doe - (365 * yoe + yoe \div 4 - yoe \div 100)
        mp == (5 * doy + 2) \div 153
        month == IF mp < 10 THEN mp + 3 ELSE mp - 9
    IN  [y |-> yoe + era * 400 + (IF month <= 2 THEN 1 ELSE 0),
         m |-> month,
         d |-> doy - (153 * mp + 2) \div 5 + 1]

\* /^\d{4}-\d{2}-\d{2}$/.test(str)
IsCanonicalDate(str) ==
    /\ Len(str) = 10
    /\ \A i \in {1, 2, 3, 4, 6, 7, 9, 10} : IsDigit(str[i])
    /\ str[5] = "-"
    /\ str[8] = "-"

\* new Date(str).toISOString().split('T')[0], or <<>> for an Invalid Date
DateParse(str) ==
    IF /\ Len(str) = 17
       /\ IsCanonicalDate(SubSeq(str, 1, 10))
       /\ SubSeq(str, 11, 17) = <<"T", "0", "0", ":", "0", "0", "Z">>
    THEN SubSeq(str, 1, 10)
    ELSE <<>>

normalizeDate(val) ==
    IF Falsy(val) THEN <<>>
    ELSE IF val.t = "number" /\ val.n > 30000
    THEN LET date == parse_date_code(val.n)
         IN  NumString(date.y) \o <<"-">> \o padStart(NumString(date.m), 2, "0")
                 \o <<"-">> \o padStart(NumString(date.d), 2, "0")
    ELSE IF val.t = "Date" THEN val.iso
    ELSE LET str == trim(String(val))
         IN  IF IsCanonicalDate(str) THEN str
             ELSE IF DateParse(str) # <<>> THEN DateParse(str)
             ELSE str

\* str.match(/\d+/): the first maximal run of digits, or <<>>
RECURSIVE FirstDigitRun(_)
FirstDigitRun(str) ==
    IF str = <<>> THEN <<>>
    ELSE IF IsDigit(Head(str)) THEN DigitPrefix(str)
    ELSE FirstDigitRun(Tail(str))

extractSquadFromA1(val) ==
    IF val.t = "undefined" \/ (val.t = "string" /\ val.s = <<>>) THEN <<>>
    ELSE LET str == trim(String(val))
             match == FirstDigitRun(str)
         IN  IF match # <<>> THEN match ELSE str

(***************************************************************************)
(* parseExcelFile.  A workbook is the sequence of its sheets, a sheet the   *)
(* sequence of its rows (rawData), a row the sequence of its cells.         *)
(***************************************************************************)
\* row[k], 0-based: undefined past the end of the row
Cell(row, k) == IF k + 1 <= Len(row) THEN row[k + 1] ELSE Undefined

\* String.prototype.includes
includes(s, sub) ==
    \E i \in 0..(Len(s) - Len(sub)) : SubSeq(s, i + 1, i + Len(sub)) = sub

UntitledCourse ==
    <<"U", "n", "t", "i", "t", "l", "e", "d", " ", "C", "o", "u", "r", "s", "e">>
Unassigned == <<"U", "n", "a", "s", "s", "i", "g", "n", "e", "d">>

\* rows 119-124: a row that is skipped before its cells are resolved
SkippedRow(row) ==
    LET col1Val == toLowerCase(IF Falsy(Cell(row, 0)) THEN <<>>
                               ELSE String(Cell(row, 0)))
    IN  \/ Len(row) < 3
        \/ includes(col1Val, <<"s", "l", "o", "t">>)
        \/ includes(col1Val, <<"d", "a", "t", "e">>)
        \/ includes(col1Val, <<"s", "q", "u", "a", "d">>)

\* Math.random().toString(36).substr(2, 9): the ids of one run are pairwise
\* distinct, the k-th id drawn is k
FreshId(k) == k

\* line 126: normalizeDate(row[1]) || lastDateInSheet
SessionDate(row, lastDate) ==
    IF normalizeDate(Cell(row, 1)) # <<>> THEN normalizeDate(Cell(row, 1))
    ELSE lastDate

\* if (fromTime): the date is not tested
ContributesFromOnly(fromTime, sessionDate) == fromTime # <<>>

\* line 130: if (fromTime && sessionDate)
Contributes(fromTime, sessionDate) == fromTime # <<>> /\ sessionDate # <<>>

\* whether the row pushes a session
RowPushes(row, lastDate) ==
    /\ ~SkippedRow(row)
    /\ Contributes(normalizeTime(Cell(row, 2)),
                   SessionDate(row, lastDate))

\* lines 131-140: the session a row pushes
NewSession(row, squadForThisSheet, sessionDate, id) ==
    [id |-> id,
     squad_number |-> Str(squadForThisSheet),
     date |-> sessionDate,
     from |-> normalizeTime(Cell(row, 2)),
     to |-> normalizeTime(Cell(row, 3)),
     course_id |-> IF Falsy(Cell(row, 4)) THEN UntitledCourse
                   ELSE String(Cell(row, 4)),
     lu_id |-> IF Falsy(Cell(row, 5)) THEN <<>> ELSE String(Cell(row, 5)),
     mentor_id |-> IF Falsy(Cell(row, 6)) THEN Unassigned
                   ELSE String(Cell(row, 6))]

\* allSessions after one pass of the loop body; acc holds the sessions
\* pushed so far (by all sheets), firstId is the first id of this import
RowSessions(row, squadForThisSheet, lastDate, acc, firstId) ==
    IF RowPushes(row, lastDate)
    THEN Append(acc, NewSession(row, squadForThisSheet,
                                SessionDate(row, lastDate),
                                FreshId(firstId + Len(acc))))
    ELSE acc

\* lastDateInSheet after one pass of the loop body (line 141)
RowLastDate(row, lastDate) ==
    IF RowPushes(row, lastDate) THEN SessionDate(row, lastDate)
    ELSE lastDate

\* the loop over the rows i..Len(rawData) of one sheet
RECURSIVE ParseRows(_, _, _, _, _, _)
ParseRows(rawData, i, squadForThisSheet, lastDate, acc, firstId) ==
    IF i > Len(rawData) THEN acc
    ELSE ParseRows(rawData, i + 1, squadForThisSheet,
                   RowLastDate(rawData[i], lastDate),
                   RowSessions(rawData[i], squadForThisSheet, lastDate,
                               acc, firstId),
                   firstId)

\* the squad of a sheet; <<>> for a sheet that is skipped (lines 112-115)
SheetSquad(rawData) ==
    IF Len(rawData) = 0 THEN <<>>
    ELSE extractSquadFromA1(Cell(rawData[1], 0))

\* one sheet of workbook.SheetNames.forEach
ParseSheet(rawData, acc, firstId) ==
    IF SheetSquad(rawData) = <<>> THEN acc
    ELSE ParseRows(rawData, 2, SheetSquad(rawData), <<>>, acc, firstId)

RECURSIVE ParseSheets(_, _, _)
ParseSheets(workbook, acc, firstId) ==
    IF workbook = <<>> THEN acc
    ELSE ParseSheets(Tail(workbook), ParseSheet(Head(workbook), acc, firstId),
                     firstId)

\* the sessions parseExcelFile resolves with for a readable workbook
parseExcelFile(workbook, firstId) == ParseSheets(workbook, <<>>, firstId)

(***************************************************************************)
(* exportToExcel.                                                           *)
(***************************************************************************)
\* String.prototype.localeCompare on the characters of the model, as the
\* collation of the browsers orders them: white space, punctuation, digits,
\* letters; letters first without regard to case, and between strings that
\* differ in case only, lower case first at the first difference
CollationSeq == <<" ", "-", ":">> \o DigitSeq \o LowerSeq

CollationRank(c) ==
    CHOOSE i \in DOMAIN CollationSeq : CollationSeq[i] = LowerChar(c)

RECURSIVE PrimaryCompare(_, _)
PrimaryCompare(a, b) ==
    IF a = <<>> /\ b = <<>> THEN 0
    ELSE IF a = <<>> THEN -1
    ELSE IF b = <<>> THEN 1
    ELSE IF CollationRank(Head(a)) < CollationRank(Head(b)) THEN -1
    ELSE IF CollationRank(Head(a)) > CollationRank(Head(b)) THEN 1
    ELSE PrimaryCompare(Tail(a), Tail(b))

RECURSIVE CaseCompare(_, _)
CaseCompare(a, b) ==
    IF a = <<>> \/ b = <<>> THEN 0
    ELSE IF Head(a) = Head(b) THEN CaseCompare(Tail(a), Tail(b))
    ELSE IF Head(a) = LowerChar(Head(a)) THEN -1
    ELSE 1

localeCompare(a, b) ==
    IF PrimaryCompare(a, b) # 0 THEN PrimaryCompare(a, b) ELSE CaseCompare(a, b)

\* the comparator of sortedSessions; a NaN difference counts as 0 in sort
CompareSessions(a, b) ==
    IF a.date # b.date THEN localeCompare(a.date, b.date)
    ELSE LET x == parseInt(a.from)
             y == parseInt(b.from)
         IN  IF x.nan \/ y.nan THEN 0 ELSE x.n - y.n

\* Array.prototype.sort is stable: x goes behind every element that does not
\* compare greater than it
RECURSIVE InsertSorted(_, _)
InsertSorted(x, sorted) ==
    IF sorted = <<>> THEN <<x>>
    ELSE IF CompareSessions(Head(sorted), x) <= 0
    THEN <<Head(sorted)>> \o InsertSorted(x, Tail(sorted))
    ELSE <<x>> \o sorted

RECURSIVE SortSessions(_)
SortSessions(list) ==
    IF list = <<>> THEN <<>>
    ELSE InsertSorted(list[Len(list)],
                      SortSessions(SubSeq(list, 1, Len(list) - 1)))

\* the comparator orders the elements of the list consistently (a NaN
\* difference makes an element equal to two elements that are not equal)
Comparisons(list) ==
    [i \in DOMAIN list |->
        [j \in DOMAIN list |-> CompareSessions(list[i], list[j])]]

TransitiveComparisons(cmp) ==
    \A i, j, k \in DOMAIN cmp :
        (cmp[i][j] <= 0 /\ cmp[j][k] <= 0) => cmp[i][k] <= 0

ConsistentComparator(list) == TransitiveComparisons(Comparisons(list))

Reorderings(list) ==
    {[i \in DOMAIN list |-> list[f[i]]] :
         f \in {g \in [DOMAIN list -> DOMAIN list] :
                    \A i, j \in DOMAIN list : i # j => g[i] # g[j]}}

\* [...filtered].sort(comparator): the stable sort when the comparator is
\* consistent.  Otherwise the order is implementation-defined: the merge
\* and insertion sorts of the engines still never put a session behind one
\* of a date that compares greater (the comparisons of two distinct dates
\* are consistent), and order the sessions of one date in any way.
sortedSessions(filtered) ==
    IF ConsistentComparator(filtered) THEN {SortSessions(filtered)}
    ELSE {p \in Reorderings(filtered) :
              \A i, j \in DOMAIN p :
                  (i < j /\ p[i].date # p[j].date)
                  => localeCompare(p[i].date, p[j].date) <= 0}

\* the squad test without toLowerCase
SameSquadExactCase(s, squadId) == String(s.squad_number) = String(squadId)

\* Array.prototype.filter with the squad test of line 157
SameSquadIgnoreCase(s, squadId) ==
    toLowerCase(String(s.squad_number)) = toLowerCase(String(squadId))

RECURSIVE FilterSquad(_, _)
FilterSquad(list, squadId) ==
    IF list = <<>> THEN <<>>
    ELSE (IF SameSquadIgnoreCase(Head(list), squadId)
          THEN <<Head(list)>> ELSE <<>>)
             \o FilterSquad(Tail(list), squadId)

\* a map whose counter is never set back to 1
RECURSIVE MapRowsNoReset(_, _, _)
MapRowsNoReset(sorted, currentDate, daySlotCounter) ==
    IF sorted = <<>> THEN <<>>
    ELSE <<[slot_number |-> daySlotCounter + 1,
            date |-> Head(sorted).date,
            from |-> Head(sorted).from,
            to |-> Head(sorted).to,
            course_id |-> Head(sorted).course_id,
            lu_id |-> Head(sorted).lu_id,
            mentor_id |-> Head(sorted).mentor_id]>>
             \o MapRowsNoReset(Tail(sorted), Head(sorted).date,
                               daySlotCounter + 1)

\* sortedSessions.map with the closure variables currentDate and
\* daySlotCounter
RECURSIVE MapRows(_, _, _)
MapRows(sorted, currentDate, daySlotCounter) ==
    IF sorted = <<>> THEN <<>>
    ELSE LET s == Head(sorted)
             counter == IF s.date # currentDate THEN 1
                        ELSE daySlotCounter + 1
         IN  <<[slot_number |-> counter,
                date |-> s.date,
                from |-> s.from,
                to |-> s.to,
                course_id |-> s.course_id,
                lu_id |-> s.lu_id,
                mentor_id |-> s.mentor_id]>>
                 \o MapRows(Tail(sorted), s.date, counter)

DataRows(sorted) == MapRows(sorted, <<>>, 0)

\* the sheets XLSX.writeFile can be handed: the squad header row and the
\* data rows (the second row, the seven column headers, is fixed)
exportToExcel(list, squadId) ==
    {[squadHeaderRow |-> <<squadId>>, dataRows |-> DataRows(sorted)] :
         sorted \in sortedSessions(FilterSquad(list, squadId))}

\* line 169: the second row of the sheet
columnHeaders ==
    <<Str(<<"s", "l", "o", "t", "_", "n", "u", "m", "b", "e", "r">>), Str(<<"d", "a", "t", "e">>), Str(<<"f", "r", "o", "m">>), Str(<<"t", "o">>),
      Str(<<"c", "o", "u", "r", "s", "e", "_", "i", "d">>), Str(<<"l", "u", "_", "i", "d">>), Str(<<"m", "e", "n", "t", "o", "r", "_", "i", "d">>)>>

\* line 192: the cells of a data row; aoa_to_sheet makes a number cell of the
\* slot number and string cells of the strings
RowCells(r) ==
    <<Num(r.slot_number), Str(r.date), Str(r.from), Str(r.to),
      Str(r.course_id), Str(r.lu_id), Str(r.mentor_id)>>

\* line 203: the array of arrays written to the file, which is what
\* sheet_to_json with header: 1 reads from that file (line 110); an empty
\* string cell, read as '' or as a hole, is falsy and '' to the import
\* either way
SheetCells(sheet) ==
    <<sheet.squadHeaderRow, columnHeaders>>
        \o [k \in DOMAIN sheet.dataRows |-> RowCells(sheet.dataRows[k])]

(***************************************************************************)
(* The App component: derived values.                                       *)
(***************************************************************************)
defaultSlots ==
    <<[from |-> <<"0", "8", "3", "0">>, to |-> <<"1", "0", "3", "0">>],
      [from |-> <<"1", "0", "3", "0">>, to |-> <<"1", "2", "3", "0">>],
      [from |-> <<"1", "3", "3", "0">>, to |-> <<"1", "5", "3", "0">>],
      [from |-> <<"1", "5", "3", "0">>, to |-> <<"1", "7", "3", "0">>]>>

\* the keys of slotMap in insertion order
RECURSIVE SlotKeys(_, _)
SlotKeys(list, seen) ==
    IF list = <<>> THEN <<>>
    ELSE LET s == Head(list)
         IN  IF s.from # <<>> /\ s.to # <<>> /\ s.from \notin seen
             THEN <<s.from>> \o SlotKeys(Tail(list), seen \cup {s.from})
             ELSE SlotKeys(Tail(list), seen)

\* slotMap.get(from): the to of the last session that set the key
SlotTo(list, from) ==
    LET I == {i \in DOMAIN list :
                  list[i].from = from /\ list[i].from # <<>> /\ list[i].to # <<>>}
    IN  list[CHOOSE i \in I : \A j \in I : j <= i].to

\* sort((a, b) => parseInt(a, 10) - parseInt(b, 10)), stable
RECURSIVE InsertKey(_, _)
InsertKey(x, sorted) ==
    IF sorted = <<>> THEN <<x>>
    ELSE LET a == parseInt(Head(sorted))
             b == parseInt(x)
         IN  IF a.nan \/ b.nan \/ a.n <= b.n
             THEN <<Head(sorted)>> \o InsertKey(x, Tail(sorted))
             ELSE <<x>> \o sorted

RECURSIVE SortKeys(_)
SortKeys(keys) ==
    IF keys = <<>> THEN <<>>
    ELSE InsertKey(keys[Len(keys)], SortKeys(SubSeq(keys, 1, Len(keys) - 1)))

dynamicTimeSlots(list) ==
    LET sortedFromTimes == SortKeys(SlotKeys(list, {}))
    IN  IF sortedFromTimes = <<>> THEN defaultSlots
        ELSE [i \in DOMAIN sortedFromTimes |->
                 [from |-> sortedFromTimes[i],
                  to |-> SlotTo(list, sortedFromTimes[i])]]

\* the comparator of line 55 on the keys; a NaN difference counts as 0 in sort
KeyComparisons(keys) ==
    [i \in DOMAIN keys |->
        [j \in DOMAIN keys |->
            IF parseInt(keys[i]).nan \/ parseInt(keys[j]).nan THEN 0
            ELSE parseInt(keys[i]).n - parseInt(keys[j]).n]]

\* the orders sort can leave the keys in: the stable order when the
\* comparator is consistent on them, an implementation-defined one otherwise
sortedFromTimes(keys) ==
    IF TransitiveComparisons(KeyComparisons(keys)) THEN {SortKeys(keys)}
    ELSE Reorderings(keys)

\* the values dynamicTimeSlots can have; they differ in the order of the
\* columns only, and dynamicTimeSlots(list) is one of them
dynamicTimeSlotsOrders(list) ==
    IF SlotKeys(list, {}) = <<>> THEN {defaultSlots}
    ELSE {[i \in DOMAIN keys |-> [from |-> keys[i], to |-> SlotTo(list, keys[i])]] :
              keys \in sortedFromTimes(SlotKeys(list, {}))}

baseSquads == 1..6

\* Number(str): the value of a string of digits, NaN for the other squad
\* labels extractSquadFromA1 yields
Number(val) ==
    IF val.t = "number" THEN JsInt(val.n)
    ELSE IF val.s # <<>> /\ \A i \in DOMAIN val.s : IsDigit(val.s[i])
    THEN JsInt(DigitsValue(val.s))
    ELSE NaN

\* the sorted squad numbers, as a sequence
RECURSIVE SortedSeq(_)
SortedSeq(S) ==
    IF S = {} THEN <<>>
    ELSE LET x == CHOOSE y \in S : \A z \in S : y <= z
         IN  <<x>> \o SortedSeq(S \ {x})

squads(list) ==
    SortedSeq(baseSquads \cup
              {Number(list[i].squad_number).n :
                   i \in {j \in DOMAIN list : ~Number(list[j].squad_number).nan}})

\* new Date().toISOString().split('T')[0]: the day the program runs
Today == <<"2", "0", "2", "4", "-", "0", "1", "-", "0", "3">>

\* the indices of sessions shown for the selected squad
currentSquadSessions(list, squad) ==
    {i \in DOMAIN list : String(list[i].squad_number) = String(squad)}

\* the rows of the grid (a set: their order plays no part in the operations)
visibleDates(list, squad) ==
    LET sessionDates == {list[i].date : i \in currentSquadSessions(list, squad)}
    IN  IF sessionDates = {} THEN {Today} ELSE sessionDates

\* currentSquadSessions.find(s => s.date === dateStr && s.from === slot.from):
\* the index of the session a grid cell shows, 0 for an empty cell
CellSession(list, squad, dateStr, slot) ==
    LET I == {i \in currentSquadSessions(list, squad) :
                  list[i].date = dateStr /\ list[i].from = slot.from}
    IN  IF I = {} THEN 0 ELSE CHOOSE i \in I : \A j \in I : i <= j

(***************************************************************************)
(* The files the user can import.                                           *)
(***************************************************************************)
D1 == <<"2", "0", "2", "4", "-", "0", "1", "-", "0", "1">>
D2 == <<"2", "0", "2", "4", "-", "0", "1", "-", "0", "2">>

HeaderRow == <<Str(<<"s", "l", "o", "t">>), Str(<<"d", "a", "t", "e">>), Str(<<"f", "r", "o", "m">>), Str(<<"t", "o">>)>>

\* the sheet of the import example: the second row has a blank date
SheetSquad4 ==
    <<<<Str(<<"S", "q", "u", "a", "d", " ", "4">>)>>,
      HeaderRow,
      <<Str(<<>>), Str(D1), Str(<<"0", "8", "3", "0">>), Str(<<"1", "0", "3", "0">>), Str(<<"I", "n", "t", "r", "o">>)>>,
      <<Str(<<>>), Str(<<>>), Str(<<"1", "0", "3", "0">>), Str(<<"1", "2", "3", "0">>), Str(<<"A", "d", "v">>)>>>>

\* three sessions of squad 4, not in time order, their cells a Date, numbers,
\* a fraction of a day and AM/PM strings
SheetUnordered ==
    <<<<Num(4)>>,
      <<Num(1), DateObj(D2, 0, 0), Str(<<"1", ":", "3", "0", " ", "P", "M">>), Str(<<"3", ":", "3", "0", " ", "p", "m">>), Str(<<"L", "a", "b">>), Str(<<"L", "U", "7">>), Str(<<"M", "1">>)>>,
      <<Num(2), Undefined, Num(830), Num(1030), Str(<<"I", "n", "t", "r", "o">>)>>,
      <<Num(1), Str(D1), Frac(9, 16), Frac(31, 48), Str(<<"A", "d", "v">>), Undefined, Str(<<"M", "1">>)>>>>

\* two squads whose labels differ in case only.  The first two rows of the
\* first sheet push nothing (a blank date with no date above it, no from);
\* its last row has a blank date and no to, and no other session of the
\* workbook has its from
SheetAlphaLower ==
    <<<<Str(<<"a", "l", "p", "h", "a">>)>>,
      <<Undefined, Undefined, Str(<<"0", "8", "3", "0">>), Str(<<"1", "0", "3", "0">>)>>,
      <<Undefined, Str(D1), Undefined, Str(<<"1", "0", "3", "0">>)>>,
      <<Undefined, Str(D1), Str(<<"0", "8", "3", "0">>), Str(<<"1", "0", "3", "0">>), Str(<<"I", "n", "t", "r", "o">>)>>,
      <<Undefined, Undefined, Str(<<"1", "0", "3", "0">>)>>>>
SheetAlphaUpper ==
    <<<<Str(<<"A", "l", "p", "h", "a">>)>>,
      <<Undefined, Str(D1), Str(<<"8", ":", "3", "0">>), Str(<<"1", "0", ":", "3", "0">>), Str(<<"L", "a", "b">>)>>>>

\* dates that are no dates, kept as written
SheetTBD ==
    <<<<Num(2)>>,
      <<Undefined, Str(<<"T", "B", "D">>), Str(<<"0", "8", "3", "0">>), Str(<<"1", "0", "3", "0">>), Str(<<"I", "n", "t", "r", "o">>)>>,
      <<Undefined, Str(<<"t", "b", "a">>), Str(<<"0", "8", "3", "0">>), Str(<<"1", "0", "3", "0">>), Str(<<"A", "d", "v">>)>>>>

\* a from that normalizeTime turns into "NaN05", between two times of the
\* same day
SheetOddTime ==
    <<<<Str(<<"S", "q", "u", "a", "d", " ", "3">>)>>,
      <<Undefined, Str(D1), Str(<<"1", "0", ":", "3", "0">>), Str(<<"1", "2", ":", "3", "0">>), Str(<<"I", "n", "t", "r", "o">>)>>,
      <<Undefined, Undefined, Str(<<"-", ":", "5">>), Str(<<"1", "2", ":", "3", "0">>), Str(<<"A", "d", "v">>)>>,
      <<Undefined, Undefined, Str(<<"0", "8", ":", "3", "0">>), Str(<<"1", "0", ":", "3", "0">>), Str(<<"L", "a", "b">>)>>>>

\* a sheet without a squad label
SheetNoSquad ==
    <<<<Undefined>>,
      <<Undefined, Str(D1), Str(<<"0", "8", "3", "0">>), Str(<<"1", "0", "3", "0">>), Str(<<"I", "n", "t", "r", "o">>)>>>>

Workbooks ==
    {<<SheetSquad4>>, <<SheetUnordered>>, <<SheetAlphaLower, SheetAlphaUpper>>,
     <<SheetNoSquad, SheetTBD>>, <<SheetOddTime>>, <<SheetNoSquad>>}

\* a file: a workbook, or a file FileReader or XLSX.read fails on
File(w) == [readable |-> TRUE, workbook |-> w]
Unreadable == [readable |-> FALSE, workbook |-> <<>>]

Files == {File(w) : w \in Workbooks} \cup {Unreadable}

\* useState<string | null>(null): no analysis shown
Null == [t |-> "null"]

\* the drag data of a drag in progress, NoDrag otherwise
NoDrag == [source |-> "none"]
\* no sheet written by the last step
NoFile == [squadHeaderRow |-> <<>>, dataRows |-> <<>>]

(***************************************************************************)
(* The App component: state and handlers.                                   *)
(*                                                                         *)
(* sessions and parkingLot are the placed and the staged set.  While       *)
(* loading is set the overlay of lines 419-426 covers the page, so no      *)
(* handler of the page runs until the pending import has completed.  A     *)
(* drag is one gesture: between onDragStart and the drop no other handler  *)
(* runs.  exported is the sheet written by the last step (NoFile when the  *)
(* last step was no export).  ops counts the operations that change the    *)
(* state, nextId the ids drawn so far.  An import parses its file in one   *)
(* step (the body of reader.onload runs to completion); the variables of   *)
(* parserVars play no part here.                                            *)
(***************************************************************************)
Init ==
    /\ wallClock = <<0, 0>>
    /\ timeValue = Undefined
    /\ railwayTime = <<>>
    /\ aiAnalysis = Null
    /\ aiRequest = "none"
    /\ sessions = <<>>
    /\ parkingLot = <<>>
    /\ selectedSquad = Num(1)
    /\ loading = FALSE
    /\ pendingFile = Unreadable
    /\ dataTransfer = NoDrag
    /\ nextId = 1
    /\ ops = 0
    /\ alerts = 0
    /\ exported = NoFile
    /\ sheetIndex = 0
    /\ rowIndex = 0
    /\ lastDateInSheet = <<>>
    /\ allSessions = <<>>

Idle == ~loading /\ dataTransfer = NoDrag

\* filter that removes nothing
RemoveIdNothing(list, id) == list

\* filter(s => s.id === id): the test inverted
RECURSIVE RemoveIdInverted(_, _)
RemoveIdInverted(list, id) ==
    IF list = <<>> THEN <<>>
    ELSE (IF Head(list).id = id THEN <<Head(list)>> ELSE <<>>)
             \o RemoveIdInverted(Tail(list), id)

\* Array.prototype.filter(s => s.id !== id)
RECURSIVE RemoveId(_, _)
RemoveId(list, id) ==
    IF list = <<>> THEN <<>>
    ELSE (IF Head(list).id # id THEN <<Head(list)>> ELSE <<>>)
             \o RemoveId(Tail(list), id)

\* Array.prototype.map(s => s.id === id ? updated : s)
ReplaceId(list, id, updated) ==
    [i \in DOMAIN list |-> IF list[i].id = id THEN updated ELSE list[i]]

\* handleFileUpload up to the await
handleFileUpload(file) ==
    /\ UNCHANGED <<normalizerVars, aiVars>>
    /\ Idle
    /\ ops < MaxOps
    /\ loading' = TRUE
    /\ pendingFile' = file
    /\ ops' = ops + 1
    /\ exported' = NoFile
    /\ UNCHANGED parserVars
    /\ UNCHANGED <<sessions, parkingLot, selectedSquad, dataTransfer, nextId,
                   alerts>>

\* handleFileUpload after the await: parseExcelFile has rejected
ImportRejected ==
    /\ UNCHANGED <<normalizerVars, aiVars>>
    /\ loading
    /\ ~pendingFile.readable
    /\ alerts' = alerts + 1
    /\ loading' = FALSE
    /\ pendingFile' = Unreadable
    /\ exported' = NoFile
    /\ UNCHANGED parserVars
    /\ UNCHANGED <<sessions, parkingLot, selectedSquad, dataTransfer, nextId,
                   ops>>

\* the staging area emptied before the test of data.length
ImportResolvedClearsStaging ==
    /\ UNCHANGED <<normalizerVars, aiVars>>
    /\ loading
    /\ pendingFile.readable
    /\ nextId' = nextId + Len(parseExcelFile(pendingFile.workbook, nextId))
    /\ parkingLot' = <<>>
    /\ IF Len(parseExcelFile(pendingFile.workbook, nextId)) = 0
       THEN /\ alerts' = alerts + 1
            /\ UNCHANGED <<sessions, selectedSquad>>
       ELSE /\ sessions' = parseExcelFile(pendingFile.workbook, nextId)
            /\ selectedSquad' =
                   parseExcelFile(pendingFile.workbook, nextId)[1].squad_number
            /\ UNCHANGED alerts
    /\ loading' = FALSE
    /\ pendingFile' = Unreadable
    /\ exported' = NoFile
    /\ UNCHANGED parserVars
    /\ UNCHANGED <<dataTransfer, ops>>

\* handleFileUpload after the await: parseExcelFile has resolved
ImportResolved ==
    /\ UNCHANGED <<normalizerVars, aiVars>>
    /\ loading
    /\ pendingFile.readable
    /\ LET data == parseExcelFile(pendingFile.workbook, nextId)
       IN  /\ nextId' = nextId + Len(data)
           /\ IF Len(data) = 0
              THEN /\ alerts' = alerts + 1
                   /\ UNCHANGED <<sessions, parkingLot, selectedSquad>>
              ELSE /\ sessions' = data
                   /\ parkingLot' = <<>>
                   /\ selectedSquad' = data[1].squad_number
                   /\ UNCHANGED alerts
    /\ loading' = FALSE
    /\ pendingFile' = Unreadable
    /\ exported' = NoFile
    /\ UNCHANGED parserVars
    /\ UNCHANGED <<dataTransfer, ops>>

handleExport ==
    /\ UNCHANGED <<normalizerVars, aiVars>>
    /\ Idle
    /\ exported' \in exportToExcel(sessions, selectedSquad)
    /\ UNCHANGED parserVars
    /\ UNCHANGED <<sessions, parkingLot, selectedSquad, loading, pendingFile,
                   dataTransfer, nextId, ops, alerts>>

navigateSquad(direction) ==
    /\ UNCHANGED <<normalizerVars, aiVars>>
    /\ Idle
    /\ ops < MaxOps
    /\ LET sq == squads(sessions)
           num == Number(selectedSquad)
           found == {i \in DOMAIN sq : ~num.nan /\ sq[i] = num.n}
           currentIndex == IF found = {} THEN -1
                           ELSE (CHOOSE i \in found : TRUE) - 1
           nextIndex == currentIndex + direction
           wrapped == IF nextIndex < 0 THEN Len(sq) - 1
                      ELSE IF nextIndex >= Len(sq) THEN 0
                      ELSE nextIndex
       IN  selectedSquad' = Num(sq[wrapped + 1])
    /\ ops' = ops + 1
    /\ exported' = NoFile
    /\ UNCHANGED parserVars
    /\ UNCHANGED <<sessions, parkingLot, loading, pendingFile, dataTransfer,
                   nextId, alerts>>

\* onDragStart of a card of the staging area, or of the card a grid cell shows
onDragStart(session, from) ==
    /\ UNCHANGED <<normalizerVars, aiVars>>
    /\ Idle
    /\ ops < MaxOps
    /\ \/ /\ from = "parking"
          /\ \E i \in DOMAIN parkingLot : parkingLot[i] = session
       \/ /\ from = "timetable"
          /\ \E dateStr \in visibleDates(sessions, selectedSquad) :
             \E k \in DOMAIN dynamicTimeSlots(sessions) :
                LET i == CellSession(sessions, selectedSquad, dateStr,
                                     dynamicTimeSlots(sessions)[k])
                IN  i # 0 /\ sessions[i] = session
    /\ dataTransfer' = [source |-> from, session |-> session]
    /\ exported' = NoFile
    /\ UNCHANGED parserVars
    /\ UNCHANGED <<sessions, parkingLot, selectedSquad, loading, pendingFile,
                   nextId, ops, alerts>>

\* the record without the to of the target slot
updatedSessionKeepsTo(draggedSession, squad, targetDate, targetSlot) ==
    [draggedSession EXCEPT !.squad_number = Str(String(squad)),
                           !.date = targetDate,
                           !.from = targetSlot.from]

\* the record onDropToTimetable builds
updatedSession(draggedSession, squad, targetDate, targetSlot) ==
    [draggedSession EXCEPT !.squad_number = Str(String(squad)),
                           !.date = targetDate,
                           !.from = targetSlot.from,
                           !.to = targetSlot.to]

onDropToTimetable(targetDate, targetSlot) ==
    /\ UNCHANGED <<normalizerVars, aiVars>>
    /\ dataTransfer # NoDrag
    /\ targetDate \in visibleDates(sessions, selectedSquad)
    /\ targetSlot \in Range(dynamicTimeSlots(sessions))
    /\ LET draggedSession == dataTransfer.session
           updated == updatedSession(draggedSession, selectedSquad,
                                     targetDate, targetSlot)
       IN  IF dataTransfer.source = "parking"
           THEN /\ parkingLot' = RemoveId(parkingLot, draggedSession.id)
                /\ sessions' = Append(sessions, updated)
           ELSE /\ sessions' = ReplaceId(sessions, draggedSession.id, updated)
                /\ UNCHANGED parkingLot
    /\ dataTransfer' = NoDrag
    /\ ops' = ops + 1
    /\ exported' = NoFile
    /\ UNCHANGED parserVars
    /\ UNCHANGED <<selectedSquad, loading, pendingFile, nextId, alerts>>

\* a staged record that gives up its grid position
StagedRecordCleared(draggedSession) ==
    [draggedSession EXCEPT !.date = <<>>, !.from = <<>>, !.to = <<>>]

\* line 153: the record onDropToParking appends
StagedRecord(draggedSession) == draggedSession

onDropToParking ==
    /\ UNCHANGED <<normalizerVars, aiVars>>
    /\ dataTransfer # NoDrag
    /\ LET draggedSession == dataTransfer.session
       IN  IF dataTransfer.source = "timetable"
           THEN /\ sessions' = RemoveId(sessions, draggedSession.id)
                /\ parkingLot' = Append(parkingLot, StagedRecord(draggedSession))
           ELSE UNCHANGED <<sessions, parkingLot>>
    /\ dataTransfer' = NoDrag
    /\ ops' = ops + 1
    /\ exported' = NoFile
    /\ UNCHANGED parserVars
    /\ UNCHANGED <<selectedSquad, loading, pendingFile, nextId, alerts>>

\* the Trash2 button of a card of the staging area
Discard(session) ==
    /\ UNCHANGED <<normalizerVars, aiVars>>
    /\ Idle
    /\ ops < MaxOps
    /\ \E i \in DOMAIN parkingLot : parkingLot[i] = session
    /\ parkingLot' = RemoveId(parkingLot, session.id)
    /\ ops' = ops + 1
    /\ exported' = NoFile
    /\ UNCHANGED parserVars
    /\ UNCHANGED <<sessions, selectedSquad, loading, pendingFile, dataTransfer,
                   nextId, alerts>>

Next ==
    \/ \E file \in Files : handleFileUpload(file)
    \/ ImportRejected
    \/ ImportResolved
    \/ handleExport
    \/ \E direction \in {-1, 1} : navigateSquad(direction)
    \/ \E session \in Range(parkingLot) : onDragStart(session, "parking")
    \/ \E session \in Range(sessions) : onDragStart(session, "timetable")
    \/ \E targetDate \in visibleDates(sessions, selectedSquad) :
       \E targetSlot \in Range(dynamicTimeSlots(sessions)) :
          onDropToTimetable(targetDate, targetSlot)
    \/ onDropToParking
    \/ \E session \in Range(parkingLot) : Discard(session)

Spec == Init /\ [][Next]_vars

(***************************************************************************)
(* Properties of the placement state (specification Spec).                  *)
(***************************************************************************)
Ids(list) == {list[i].id : i \in DOMAIN list}

CountId(list, id) == Cardinality({i \in DOMAIN list : list[i].id = id})

\* list without its k-th element
Without(list, k) == SubSeq(list, 1, k - 1) \o SubSeq(list, k + 1, Len(list))

\* the position of the record with this id
IndexOfId(list, id) == CHOOSE k \in DOMAIN list : list[k].id = id

T0830 == <<"0", "8", "3", "0">>
T1030 == <<"1", "0", "3", "0">>
LabCourse == <<"L", "a", "b">>

\* C1: in every reachable state every session id of the placed set
\* (sessions) and the staged set (parkingLot) occurs exactly once in the two
\* sets together: never in both, never twice in one.
C1_IdInExactlyOneSet ==
    \A id \in Ids(sessions) \cup Ids(parkingLot) :
        CountId(sessions, id) + CountId(parkingLot, id) = 1

\* a staged session has been placed again (it sits behind a session with a
\* greater id) while another session is staged
C1_Witness ==
    /\ parkingLot # <<>>
    /\ \E i, j \in DOMAIN sessions : i < j /\ sessions[i].id > sessions[j].id

\* C2: no two distinct placed sessions share squad, date and from.
C2_OneSessionPerCell ==
    \A i, j \in DOMAIN sessions :
        i # j =>
            ~ /\ String(sessions[i].squad_number) = String(sessions[j].squad_number)
              /\ sessions[i].date = sessions[j].date
              /\ sessions[i].from = sessions[j].from

\* what C3 says of a drop of the dragged session on the cell (d, slot)
PlaceEffect(d, slot) ==
    LET id == dataTransfer.session.id
        fromParking == dataTransfer.source = "parking"
        source == IF fromParking THEN parkingLot ELSE sessions
        original == source[IndexOfId(source, id)]
        k == IndexOfId(sessions', id)
    IN  /\ CountId(sessions', id) = 1
        /\ CountId(parkingLot', id) = 0
        /\ String(sessions'[k].squad_number) = String(selectedSquad)
        /\ sessions'[k].date = d
        /\ sessions'[k].from = slot.from
        /\ sessions'[k].to = slot.to
        /\ sessions'[k].course_id = original.course_id
        /\ sessions'[k].lu_id = original.lu_id
        /\ sessions'[k].mentor_id = original.mentor_id
        /\ IF fromParking
           THEN /\ Len(sessions') = Len(sessions) + 1
                /\ SubSeq(sessions', 1, Len(sessions)) = sessions
                /\ Len(parkingLot') = Len(parkingLot) - 1
                /\ parkingLot' = Without(parkingLot, IndexOfId(parkingLot, id))
           ELSE /\ Len(sessions') = Len(sessions)
                /\ k = IndexOfId(sessions, id)
                /\ \A i \in DOMAIN sessions : i # k => sessions'[i] = sessions[i]
                /\ parkingLot' = parkingLot

\* C3: a place (a drop on a grid cell) of a session of the staged or the
\* placed set leaves exactly one record of its id in the placed set and none
\* in the staged set, with the squad, date, from and to of the target and
\* the id, course, LU and mentor it had; from the placed set the record is
\* replaced where it was, from the staged set it is appended and the staged
\* set loses it; every other record of both sets stays as it was.
C3_PlaceEffect ==
    [][\A d \in visibleDates(sessions, selectedSquad) :
       \A slot \in Range(dynamicTimeSlots(sessions)) :
          onDropToTimetable(d, slot) => PlaceEffect(d, slot)]_vars

\* session 1 has been moved inside the grid (it kept its place in the list)
\* and session 2 has been placed from the staging area (it is the last)
C3_Witness ==
    /\ Len(sessions) = 3
    /\ sessions[1].id = 1
    /\ sessions[1].course_id = LabCourse
    /\ sessions[1].date = D1
    /\ sessions[3].id = 2
    /\ parkingLot = <<>>

\* C4: a place sets the id, date, from and to of the record it leaves in
\* the placed set to the dragged id and the target's values, and a stage
\* moves the record of the placed set to the end of the staged set with
\* every field as it was: so a place followed by a stage leaves the session
\* staged with its id and the date, from and to of that placement.
C4_StageKeepsPlacement ==
    [][/\ \A d \in visibleDates(sessions, selectedSquad) :
          \A slot \in Range(dynamicTimeSlots(sessions)) :
             onDropToTimetable(d, slot) =>
                 LET r == sessions'[IndexOfId(sessions', dataTransfer.session.id)]
                 IN  r.date = d /\ r.from = slot.from /\ r.to = slot.to
       /\ (onDropToParking /\ dataTransfer.source = "timetable") =>
              LET id == dataTransfer.session.id
              IN  /\ parkingLot' =
                         Append(parkingLot, sessions[IndexOfId(sessions, id)])
                  /\ CountId(sessions', id) = 0
                  /\ sessions' = Without(sessions, IndexOfId(sessions, id))]_vars

\* session 1 of the unordered sheet (imported on 2024-01-02 at 1330) is staged
\* with the date and the times of the cell it was last placed on
C4_Witness ==
    \E i \in DOMAIN parkingLot :
        /\ parkingLot[i].id = 1
        /\ parkingLot[i].course_id = LabCourse
        /\ parkingLot[i].date = D1
        /\ parkingLot[i].from = T0830
        /\ parkingLot[i].to = T1030

\* a step that completes an import
ImportCompletes == loading /\ ~loading'

\* C5: a discard removes exactly the record of that id from the staged set
\* and changes nothing else; no step but the completion of an import brings
\* an id into the two sets (so a discarded id never comes back by a place, a
\* stage or a discard), and no such step takes a session out of the placed
\* set without putting it in the staged set.
C5_DiscardPermanent ==
    [][/\ \A session \in Range(parkingLot) :
             Discard(session) =>
                 /\ sessions' = sessions
                 /\ CountId(parkingLot, session.id) = 1
                 /\ parkingLot' =
                        Without(parkingLot, IndexOfId(parkingLot, session.id))
       /\ ~ImportCompletes =>
              /\ Ids(sessions') \cup Ids(parkingLot')
                     \subseteq Ids(sessions) \cup Ids(parkingLot)
              /\ Ids(sessions) \ Ids(sessions') \subseteq Ids(parkingLot')]_vars

\* of three imported sessions one has been discarded and, after that, another
\* operation has run
C5_Witness ==
    /\ nextId = 4
    /\ Len(sessions) = 2
    /\ parkingLot = <<>>
    /\ ops >= 4
    /\ Idle

\* C6: no session of the placed or the staged set has an empty date or an
\* empty from.
C6_DateAndFromNonEmpty ==
    \A s \in Range(sessions) \cup Range(parkingLot) :
        s.date # <<>> /\ s.from # <<>>

\* the sheets with rows that push nothing have been imported, and a session
\* is placed and another staged
C6_Witness ==
    /\ \E i \in DOMAIN sessions :
          sessions[i].squad_number = Str(<<"A", "l", "p", "h", "a">>)
    /\ \E i \in DOMAIN sessions : sessions[i].to = <<>>
    /\ parkingLot # <<>>
    /\ Idle

\* the sessions the pending import yields: none for a file whose read or
\* parse raises
PendingData ==
    IF pendingFile.readable THEN parseExcelFile(pendingFile.workbook, nextId)
    ELSE <<>>

\* C15: an import that fails (the read or the parse raises, or the workbook
\* yields no session) leaves sessions, parkingLot and selectedSquad as they
\* were, reports the failure once and clears loading; an import that yields
\* sessions replaces sessions by them, empties parkingLot, selects the squad
\* of the first and reports nothing; a step that starts an import changes
\* none of the three.
C15_FailedImportKeepsState ==
    [][/\ ImportCompletes =>
             /\ ~loading'
             /\ IF PendingData = <<>>
                THEN /\ sessions' = sessions
                     /\ parkingLot' = parkingLot
                     /\ selectedSquad' = selectedSquad
                     /\ alerts' = alerts + 1
                ELSE /\ sessions' = PendingData
                     /\ parkingLot' = <<>>
                     /\ selectedSquad' = PendingData[1].squad_number
                     /\ alerts' = alerts
       /\ (~loading /\ loading') =>
             /\ sessions' = sessions
             /\ parkingLot' = parkingLot
             /\ selectedSquad' = selectedSquad
             /\ alerts' = alerts]_vars

\* an import has failed in a behaviour that placed and staged sessions, and
\* these are still there
C15_Witness ==
    /\ alerts = 1
    /\ sessions # <<>>
    /\ parkingLot # <<>>
    /\ Idle

(***************************************************************************)
(* Properties of the exported sheet (specification Spec).  exported is the  *)
(* sheet the last step wrote, so sessions and selectedSquad are the         *)
(* collection and the squad it was written from.                            *)
(***************************************************************************)
\* the cells of a data row, and the same fields of a session
RowContent(r) == <<r.date, r.from, r.to, r.course_id, r.lu_id, r.mentor_id>>
SessionContent(s) == <<s.date, s.from, s.to, s.course_id, s.lu_id, s.mentor_id>>

\* the placed sessions of the squad, the labels compared as strings without
\* regard to case
PlacedOfSquad(squadId) ==
    {i \in DOMAIN sessions :
         toLowerCase(String(sessions[i].squad_number))
             = toLowerCase(String(squadId))}

\* the rows and the sessions of the index set I correspond one to one
RowsMatchSessions(rows, I) ==
    /\ Len(rows) = Cardinality(I)
    /\ \A k \in DOMAIN rows :
          Cardinality({j \in DOMAIN rows : RowContent(rows[j]) = RowContent(rows[k])})
              = Cardinality({i \in I : SessionContent(sessions[i]) = RowContent(rows[k])})

AlphaUpper == <<"A", "l", "p", "h", "a">>
AlphaLower == <<"a", "l", "p", "h", "a">>

\* C8: the data rows of an exported sheet correspond one to one to the
\* placed sessions whose squad equals the exported squad, both compared as
\* strings without regard to case; sessions of other squads and staged
\* sessions have no row.
C8_ExportRowsOfSquad ==
    exported # NoFile =>
        RowsMatchSessions(exported.dataRows, PlacedOfSquad(selectedSquad))

\* the sheet of squad "alpha" holds the two placed sessions of the squads
\* "alpha" and "Alpha" and not the staged one
C8_Witness ==
    /\ exported # NoFile
    /\ Len(exported.dataRows) = 2
    /\ parkingLot # <<>>
    /\ \E i, j \in DOMAIN sessions :
          /\ sessions[i].squad_number = Str(AlphaLower)
          /\ sessions[j].squad_number = Str(AlphaUpper)

CodeUnitSeq == <<" ", "-">> \o DigitSeq \o <<":">> \o UpperSeq \o LowerSeq

CodeUnit(c) == CHOOSE i \in DOMAIN CodeUnitSeq : CodeUnitSeq[i] = c

\* a = b or a before b in lexicographic string order
RECURSIVE LexLeq(_, _)
LexLeq(a, b) ==
    IF a = <<>> THEN TRUE
    ELSE IF b = <<>> THEN FALSE
    ELSE IF Head(a) = Head(b) THEN LexLeq(Tail(a), Tail(b))
    ELSE CodeUnit(Head(a)) < CodeUnit(Head(b))

\* from as an integer, where both parse
FromLeq(a, b) ==
    (~parseInt(a).nan /\ ~parseInt(b).nan) => parseInt(a).n <= parseInt(b).n

\* the rows of the exported sheet are the sessions of the squad in another
\* order: by date in lexicographic order, the rows of a date by from
RowsInClaimedOrder ==
    exported # NoFile =>
        LET rows == exported.dataRows
        IN  /\ RowsMatchSessions(rows, PlacedOfSquad(selectedSquad))
            /\ \A i, j \in DOMAIN rows :
                  i < j =>
                      /\ LexLeq(rows[i].date, rows[j].date)
                      /\ rows[i].date = rows[j].date
                             => FromLeq(rows[i].from, rows[j].from)

\* C10: the data rows of an exported sheet are a permutation of the
\* sessions of the squad ordered by date ascending in lexicographic string
\* order and, among rows of equal date, by from as an integer ascending;
\* the export does not reorder the collection.
C10_ExportSorted ==
    /\ []RowsInClaimedOrder
    /\ [][handleExport => sessions' = sessions]_vars

\* the sessions an import of the written sheet yields
Reimported(sheet) == parseExcelFile(<<SheetCells(sheet)>>, 1)

\* the imported session has the squad and the fields of the exported one
SameSessionFields(a, b) ==
    /\ String(a.squad_number) = String(b.squad_number)
    /\ SessionContent(a) = SessionContent(b)

\* C12: importing an exported sheet yields, in row order, sessions with the
\* squad, date, from, to, course, LU and mentor of the exported sessions;
\* and where the order of the sort is defined the rows of the sheet are a
\* function of the collection and the squad (two exports are identical).
C12_ExportImportRoundTrip ==
    exported # NoFile =>
        /\ \A sorted \in sortedSessions(FilterSquad(sessions, selectedSquad)) :
              DataRows(sorted) = exported.dataRows =>
                  /\ Len(Reimported(exported)) = Len(sorted)
                  /\ \A k \in DOMAIN sorted :
                        SameSessionFields(Reimported(exported)[k], sorted[k])
        /\ ConsistentComparator(FilterSquad(sessions, selectedSquad)) =>
              Cardinality(exportToExcel(sessions, selectedSquad)) = 1

(***************************************************************************)
(* Properties of the grid columns (specification Spec).                     *)
(***************************************************************************)
\* the non-empty from values of the collection
FromValues(list) == {list[i].from : i \in DOMAIN list} \ {<<>>}

\* the to of the last session of the collection with this from
LastTo(list, from) ==
    LET I == {i \in DOMAIN list : list[i].from = from}
    IN  list[CHOOSE i \in I : \A j \in I : j <= i].to

\* C11: the slots derived from the collection are one per distinct
\* non-empty from of its sessions, in strictly ascending order of from as an
\* integer, each with the to of the last session of that from; without such
\* a value they are the four default slots.
C11_DeriveSlots ==
    \A slots \in dynamicTimeSlotsOrders(sessions) :
        IF FromValues(sessions) = {} THEN slots = defaultSlots
        ELSE /\ {slots[i].from : i \in DOMAIN slots} = FromValues(sessions)
             /\ Len(slots) = Cardinality(FromValues(sessions))
             /\ \A i, j \in DOMAIN slots :
                   i < j => /\ ~parseInt(slots[i].from).nan
                            /\ ~parseInt(slots[j].from).nan
                            /\ parseInt(slots[i].from).n < parseInt(slots[j].from).n
             /\ \A i \in DOMAIN slots :
                   slots[i].to = LastTo(sessions, slots[i].from)

(***************************************************************************)
(* parseExcelFile, pass by pass of its loops, on the workbooks of           *)
(* ImportWorkbooks.  sheetIndex is the sheet forEach is at, rowIndex the    *)
(* row of rawData the for loop is at (0 before the loop of the sheet has   *)
(* begun); lastDateInSheet and allSessions are the variables of the code.  *)
(***************************************************************************)
DateCells == {Undefined, Str(D1), Str(D2)}
FromCells == {Undefined, Str(<<"0", "8", "3", "0">>)}

ImportRows ==
    {<<Undefined, d, f, Str(<<"1", "0", "3", "0">>)>> :
         d \in DateCells, f \in FromCells}
    \cup {<<Undefined, Str(<<" ">>), Str(<<"0", "8", "3", "0">>)>>,
          <<Undefined, Str(D2)>>,
          <<Str(<<"D", "a", "t", "e">>), Str(D2),
            Str(<<"0", "8", "3", "0">>)>>}

RECURSIVE RowSeqs(_)
RowSeqs(n) ==
    IF n = 0 THEN {<<>>}
    ELSE RowSeqs(n - 1) \cup
         {Append(rows, r) : rows \in RowSeqs(n - 1), r \in ImportRows}

ImportSheets ==
    {<<<<Str(<<"S", "q", "u", "a", "d", " ", "4">>)>>>> \o rows :
         rows \in RowSeqs(MaxRows)}

\* a sheet of another squad that ends with a resolved date
SheetSquad7 ==
    <<<<Str(<<"S", "Q", "-", "7">>)>>,
      <<Undefined, Str(D2), Str(<<"0", "8", "3", "0">>)>>>>

ImportWorkbooks ==
    {<<sheet>> : sheet \in ImportSheets}
    \cup {<<SheetSquad7, sheet>> : sheet \in ImportSheets}
    \cup {<<SheetNoSquad, sheet>> : sheet \in ImportSheets}

InitImport ==
    /\ wallClock = <<0, 0>>
    /\ timeValue = Undefined
    /\ railwayTime = <<>>
    /\ aiAnalysis = Null
    /\ aiRequest = "none"
    /\ pendingFile \in {File(w) : w \in ImportWorkbooks}
    /\ sheetIndex = 1
    /\ rowIndex = 0
    /\ lastDateInSheet = <<>>
    /\ allSessions = <<>>
    /\ sessions = <<>>
    /\ parkingLot = <<>>
    /\ selectedSquad = Num(1)
    /\ loading = TRUE
    /\ dataTransfer = NoDrag
    /\ nextId = 1
    /\ ops = 0
    /\ alerts = 0
    /\ exported = NoFile

\* the sheet forEach is at
rawDataNow == pendingFile.workbook[sheetIndex]

\* lines 112 and 115: the sheet is empty or has no squad
SheetSkipped ==
    /\ UNCHANGED <<normalizerVars, aiVars>>
    /\ sheetIndex \in 1..Len(pendingFile.workbook)
    /\ rowIndex = 0
    /\ SheetSquad(rawDataNow) = <<>>
    /\ sheetIndex' = sheetIndex + 1
    /\ UNCHANGED <<appVars, pendingFile, rowIndex, lastDateInSheet,
                   allSessions>>

\* lines 114-119: the loop over the rows of the sheet begins
SheetStarted ==
    /\ UNCHANGED <<normalizerVars, aiVars>>
    /\ sheetIndex \in 1..Len(pendingFile.workbook)
    /\ rowIndex = 0
    /\ SheetSquad(rawDataNow) # <<>>
    /\ lastDateInSheet' = <<>>
    /\ rowIndex' = 2
    /\ UNCHANGED <<appVars, pendingFile, sheetIndex, allSessions>>

\* lines 120-142: one pass of the loop over the rows
RowPass ==
    /\ UNCHANGED <<normalizerVars, aiVars>>
    /\ sheetIndex \in 1..Len(pendingFile.workbook)
    /\ rowIndex \in 2..Len(rawDataNow)
    /\ allSessions' = RowSessions(rawDataNow[rowIndex],
                                  SheetSquad(rawDataNow), lastDateInSheet,
                                  allSessions, nextId)
    /\ lastDateInSheet' = RowLastDate(rawDataNow[rowIndex], lastDateInSheet)
    /\ rowIndex' = rowIndex + 1
    /\ UNCHANGED <<appVars, pendingFile, sheetIndex>>

\* line 119: the loop over the rows of the sheet ends
SheetEnded ==
    /\ UNCHANGED <<normalizerVars, aiVars>>
    /\ sheetIndex \in 1..Len(pendingFile.workbook)
    /\ rowIndex > Len(rawDataNow)
    /\ sheetIndex' = sheetIndex + 1
    /\ rowIndex' = 0
    /\ UNCHANGED <<appVars, pendingFile, lastDateInSheet, allSessions>>

NextImport == SheetSkipped \/ SheetStarted \/ RowPass \/ SheetEnded

SpecImport == InitImport /\ [][NextImport]_vars

\* the run of parseExcelFile has reached resolve(allSessions)
ImportDone == sheetIndex > Len(pendingFile.workbook)

\* the passes of the loops yield what parseExcelFile yields in one step
StepwiseAgrees ==
    ImportDone => allSessions = parseExcelFile(pendingFile.workbook, nextId)

(***************************************************************************)
(* Properties of the row loop (specification SpecImport).                   *)
(***************************************************************************)
\* the date most recently resolved by a row before row i of the sheet: the
\* date of the nearest earlier row that is not skipped and whose date cell
\* normalizes to a date; <<>> when there is none
RECURSIVE ResolvedBefore(_, _)
ResolvedBefore(rawData, i) ==
    IF i <= 2 THEN <<>>
    ELSE IF /\ ~SkippedRow(rawData[i - 1])
            /\ normalizeDate(Cell(rawData[i - 1], 1)) # <<>>
    THEN normalizeDate(Cell(rawData[i - 1], 1))
    ELSE ResolvedBefore(rawData, i - 1)

\* C7: a data row whose date cell normalizes to the empty string gets the
\* date most recently resolved by an earlier row of the same sheet; it is
\* dropped when no earlier row of its sheet resolved a date (dates of other
\* sheets are not inherited) or when its from is empty.
C7_BlankDateInherits ==
    [][RowPass =>
          LET row == rawDataNow[rowIndex]
              inherited == ResolvedBefore(rawDataNow, rowIndex)
          IN  (~SkippedRow(row) /\ normalizeDate(Cell(row, 1)) = <<>>) =>
                  IF inherited # <<>> /\ normalizeTime(Cell(row, 2)) # <<>>
                  THEN /\ Len(allSessions') = Len(allSessions) + 1
                       /\ allSessions'[Len(allSessions')].date = inherited
                  ELSE allSessions' = allSessions]_vars

(***************************************************************************)
(* normalizeTime, called on the cell values of TimeValues.                  *)
(***************************************************************************)
\* the greatest number cell of TimeValues
MaxTimeNumber == 10000
\* the length of the longest string cell of TimeValues
MaxTimeLen == 3

TimeChars == {"1", "5", ":", "-", " ", "a", "p", "m"}

RECURSIVE TimeStrings(_)
TimeStrings(n) ==
    IF n = 0 THEN {<<>>}
    ELSE TimeStrings(n - 1) \cup
         {Append(str, c) : str \in TimeStrings(n - 1), c \in TimeChars}

TimeValues ==
    {Undefined}
    \cup {Str(str) : str \in TimeStrings(MaxTimeLen)}
    \cup {Num(n) : n \in (0 - 9)..MaxTimeNumber}
    \cup {Frac(k, 96) : k \in 0..95}
    \cup {Frac(9999, 10000)}
    \cup {DateObj(D1, h, m) : h \in 0..23, m \in {0, 5, 30, 59}}

\* railwayTime before normalizeTime has returned
NotCalled == <<"not called">>

InitNormalizeTime ==
    /\ timeValue \in TimeValues
    /\ railwayTime = NotCalled
    /\ wallClock = <<0, 0>>
    /\ sessions = <<>>
    /\ parkingLot = <<>>
    /\ selectedSquad = Num(1)
    /\ loading = FALSE
    /\ pendingFile = Unreadable
    /\ dataTransfer = NoDrag
    /\ nextId = 1
    /\ ops = 0
    /\ alerts = 0
    /\ exported = NoFile
    /\ sheetIndex = 0
    /\ rowIndex = 0
    /\ lastDateInSheet = <<>>
    /\ allSessions = <<>>
    /\ aiAnalysis = Null
    /\ aiRequest = "none"

\* a call normalizeTime(timeValue)
NormalizeTimeCalled ==
    /\ railwayTime = NotCalled
    /\ railwayTime' = normalizeTime(timeValue)
    /\ UNCHANGED <<appVars, pendingFile, parserVars, aiVars, wallClock,
                   timeValue>>

SpecNormalizeTime == InitNormalizeTime /\ [][NormalizeTimeCalled]_vars

\* k in 0..99 as two decimal digits
TwoDigits(k) == <<DigitSeq[(k \div 10) + 1], DigitSeq[(k % 10) + 1]>>

\* a string HHmm of four decimal digits with HH in 00..23 and mm in 00..59
IsRailwayTime(str) ==
    \E h \in 0..23, m \in 0..59 : str = TwoDigits(h) \o TwoDigits(m)

\* C13: normalizeTime returns the empty string or four decimal digits HHmm
\* with HH in 00..23 and mm in 00..59; for a number n in 1..9999 it returns
\* (n div 100) mod 24 and (n mod 100) mod 60, each as two digits.
C13_RailwayTimeFormat ==
    railwayTime # NotCalled =>
        /\ railwayTime = <<>> \/ IsRailwayTime(railwayTime)
        /\ (timeValue.t = "number" /\ timeValue.n \in 1..9999) =>
               railwayTime = TwoDigits((timeValue.n \div 100) % 24)
                                 \o TwoDigits((timeValue.n % 100) % 60)

(***************************************************************************)
(* normalizeTime, called on the encodings of one wall-clock time.           *)
(***************************************************************************)
\* the hour of the 12-hour clock
Hour12(h) == IF h % 12 = 0 THEN 12 ELSE h % 12

\* the cell values that encode the time h:m: a date-time, 12-hour strings
\* with a marker, 24-hour strings, the number HHmm and the day fraction
Encodings(h, m) ==
    {DateObj(D1, h, m),
     Str(NatString(Hour12(h)) \o <<":">> \o TwoDigits(m)
             \o (IF h < 12 THEN <<" ", "A", "M">> ELSE <<" ", "P", "M">>)),
     Str(TwoDigits(Hour12(h)) \o <<":">> \o TwoDigits(m)
             \o (IF h < 12 THEN <<"a", "m">> ELSE <<"p", "m">>)),
     Str(NatString(h) \o <<":">> \o TwoDigits(m)),
     Str(TwoDigits(h) \o <<":">> \o TwoDigits(m)),
     Num(100 * h + m),
     Frac(60 * h + m, 1440)}

InitEncodings ==
    /\ wallClock \in (0..23) \X (0..59)
    /\ timeValue = Undefined
    /\ railwayTime = NotCalled
    /\ sessions = <<>>
    /\ parkingLot = <<>>
    /\ selectedSquad = Num(1)
    /\ loading = FALSE
    /\ pendingFile = Unreadable
    /\ dataTransfer = NoDrag
    /\ nextId = 1
    /\ ops = 0
    /\ alerts = 0
    /\ exported = NoFile
    /\ sheetIndex = 0
    /\ rowIndex = 0
    /\ lastDateInSheet = <<>>
    /\ allSessions = <<>>
    /\ aiAnalysis = Null
    /\ aiRequest = "none"

\* a call of normalizeTime on an encoding of wallClock
EncodingNormalized ==
    /\ \E encoding \in Encodings(wallClock[1], wallClock[2]) :
          /\ timeValue' = encoding
          /\ railwayTime' = normalizeTime(encoding)
    /\ UNCHANGED <<appVars, pendingFile, parserVars, aiVars, wallClock>>

SpecEncodings == InitEncodings /\ [][EncodingNormalized]_vars

\* C14: every encoding of the wall-clock time h:m (date-time, 12-hour string
\* with AM/PM marker, 24-hour string, number 100*h+m, day fraction
\* (60*h+m)/1440) normalizes to the same four digits HHmm.
C14_EncodingsAgree ==
    railwayTime # NotCalled =>
        railwayTime = TwoDigits(wallClock[1]) \o TwoDigits(wallClock[2])

\* "12:05 AM" has been normalized to "0005"
C14_Witness ==
    /\ wallClock = <<0, 5>>
    /\ timeValue = Str(<<"1", "2", ":", "0", "5", " ", "A", "M">>)
    /\ railwayTime = <<"0", "0", "0", "5">>

(***************************************************************************)
(* handleAiAnalysis and analyzeSchedule (geminiService).  The request runs  *)
(* up to its first await in one step: setLoading(true), the summary of the  *)
(* squad's sessions (which changes no state), and in analyzeSchedule the    *)
(* expression new GoogleGenAI({ apiKey: process.env.API_KEY }) of line 9,    *)
(* which stands before the try block and raises when the build defines no   *)
(* process.env or no key.  aiRequest is "none", "pending" while             *)
(* generateContent is awaited, and "raised" once the promise of             *)
(* handleAiAnalysis has been rejected.                                       *)
(***************************************************************************)
ErrorAnalyzing ==
    <<"E", "r", "r", "o", "r", " ", "a", "n", "a", "l", "y", "z", "i", "n",
      "g", " ", "s", "c", "h", "e", "d", "u", "l", "e", ".">>

AuditCompleted ==
    <<"A", "u", "d", "i", "t", " ", "c", "o", "m", "p", "l", "e", "t", "e",
      "d", ".">>

NoConflicts ==
    <<"N", "o", " ", "c", "o", "n", "f", "l", "i", "c", "t", "s", ".">>

\* the values of response.text
ResponseTexts == {Str(NoConflicts), Str(<<>>), Undefined}

\* the states an import of a workbook of Workbooks leaves the App in
InitAi ==
    /\ \E w \in Workbooks :
          /\ sessions = parseExcelFile(w, 1)
          /\ nextId = 1 + Len(parseExcelFile(w, 1))
          /\ selectedSquad = IF parseExcelFile(w, 1) = <<>> THEN Num(1)
                             ELSE parseExcelFile(w, 1)[1].squad_number
    /\ parkingLot = <<>>
    /\ loading = FALSE
    /\ pendingFile = Unreadable
    /\ dataTransfer = NoDrag
    /\ ops = 1
    /\ alerts = 0
    /\ exported = NoFile
    /\ sheetIndex = 0
    /\ rowIndex = 0
    /\ lastDateInSheet = <<>>
    /\ allSessions = <<>>
    /\ wallClock = <<0, 0>>
    /\ timeValue = Undefined
    /\ railwayTime = <<>>
    /\ aiAnalysis = Null
    /\ aiRequest = "none"

\* lines 108-114 and geminiService line 9: the request up to its first await
handleAiAnalysis(constructed) ==
    /\ Idle
    /\ aiRequest = "none"
    /\ ops < MaxOps
    /\ loading' = TRUE
    /\ aiRequest' = IF constructed THEN "pending" ELSE "raised"
    /\ ops' = ops + 1
    /\ exported' = NoFile
    /\ UNCHANGED <<sessions, parkingLot, selectedSquad, pendingFile,
                   dataTransfer, nextId, alerts, aiAnalysis>>
    /\ UNCHANGED <<parserVars, normalizerVars>>

\* result || "Audit completed."
AnalysisShown(result) == IF Falsy(result) THEN Str(AuditCompleted) ELSE result

\* lines 115-116 after generateContent has resolved with response.text = text
AiResponded(text) ==
    /\ aiRequest = "pending"
    /\ aiAnalysis' = AnalysisShown(text)
    /\ loading' = FALSE
    /\ aiRequest' = "none"
    /\ exported' = NoFile
    /\ UNCHANGED <<sessions, parkingLot, selectedSquad, pendingFile,
                   dataTransfer, nextId, ops, alerts>>
    /\ UNCHANGED <<parserVars, normalizerVars>>

\* geminiService lines 23-25, then lines 115-116: generateContent has rejected
AiFailed ==
    /\ aiRequest = "pending"
    /\ aiAnalysis' = AnalysisShown(Str(ErrorAnalyzing))
    /\ loading' = FALSE
    /\ aiRequest' = "none"
    /\ exported' = NoFile
    /\ UNCHANGED <<sessions, parkingLot, selectedSquad, pendingFile,
                   dataTransfer, nextId, ops, alerts>>
    /\ UNCHANGED <<parserVars, normalizerVars>>

\* line 345: the analysis panel is closed
DismissAnalysis ==
    /\ Idle
    /\ aiAnalysis # Null
    /\ aiAnalysis' = Null
    /\ exported' = NoFile
    /\ UNCHANGED <<sessions, parkingLot, selectedSquad, loading, pendingFile,
                   dataTransfer, nextId, ops, alerts, aiRequest>>
    /\ UNCHANGED <<parserVars, normalizerVars>>

\* the external call settles
AiSettles == AiFailed \/ \E text \in ResponseTexts : AiResponded(text)

NextAi ==
    \/ \E constructed \in BOOLEAN : handleAiAnalysis(constructed)
    \/ \E text \in ResponseTexts : AiResponded(text)
    \/ AiFailed
    \/ DismissAnalysis
    \/ \E direction \in {-1, 1} : navigateSquad(direction)
    \/ \E session \in Range(sessions) : onDragStart(session, "timetable")
    \/ onDropToParking

\* generateContent is assumed to settle: its promise resolves or rejects
SpecAi == InitAi /\ [][NextAi]_vars /\ WF_vars(AiSettles)

\* a request completes: the awaited analyzeSchedule has returned its result
AiCompletes == aiRequest = "pending" /\ aiRequest' = "none"

(***************************************************************************)
(* C16: every AI-analysis request eventually completes without a raised     *)
(* error: when the external call fails the result is the fixed string       *)
(* "Error analyzing schedule.", otherwise it is the returned text (the      *)
(* panel shows a result r as r || "Audit completed.", so the result is read *)
(* from aiAnalysis when it is a non-empty string); the loading indicator    *)
(* set at the start of the request is eventually cleared; and the request   *)
(* changes neither the placed set (sessions) nor the staged set             *)
(* (parkingLot).                                                            *)
(***************************************************************************)
C16_AiRequestCompletes ==
    /\ [](aiRequest # "raised")
    /\ [][AiFailed => aiAnalysis' = Str(ErrorAnalyzing)]_vars
    /\ [][\A text \in ResponseTexts :
             (AiResponded(text) /\ ~Falsy(text)) => aiAnalysis' = text]_vars
    /\ [][AiCompletes => ~loading']_vars
    /\ [][aiRequest' # aiRequest =>
             sessions' = sessions /\ parkingLot' = parkingLot]_vars
    /\ (loading ~> ~loading)

====
